---- MODULE Spec2Model ----
(***************************************************************************)
(* Model of src/data_prep.py: the session loader (load_sessions), the      *)
(* event flattener (flatten_events) and the session aggregator             *)
(* (build_session_features), composed load -> flatten -> aggregate.        *)
(*                                                                         *)
(* A file is a sequence of lines.  A well-formed line is the text of one   *)
(* session object, written here as the pair                                *)
(*     << session, << <<aid, ts, type>>, ... >> >>                          *)
(* and json_loads turns it into the record the program works with.  Any    *)
(* line that is not such a pair (a blank line, a truncated object) makes   *)
(* json.loads raise.  A DataFrame is the sequence of its rows; the result  *)
(* of groupby(...).agg(...) is the sequence of its rows in index order.    *)
(***************************************************************************)
EXTENDS Integers, Sequences, FiniteSets, TLC

VARIABLES
    entry,             \* the function the caller invoked first
    pc,                \* "load" | "flatten" | "build" | "done" | "error"
    file,              \* the lines of the file behind `path`
    n,                 \* load_sessions' parameter n
    consumed,          \* lines the `for` loop has pulled from f so far
    sessions,          \* load_sessions' local list / flatten_events' argument
    load_result,       \* what load_sessions returned, if it returned
    event_df,          \* flatten_events' result / build_session_features' argument
    session_features,  \* build_session_features' result
    error              \* the exception that ended the run, or "none"

vars == <<entry, pc, file, n, consumed, sessions, load_result, event_df,
          session_features, error>>

----------------------------------------------------------------------------
(* Bounds of the model *)

MaxLines == 3
MaxN == 3
MaxSessions == 2
MaxEvents == 2
MaxSid == 2
MaxRows == 3

----------------------------------------------------------------------------
(* Values *)

\* Python's None (JSON null) in a type cell: pandas treats it as missing.
None == "<None>"

\* type values an event can carry: the three categories, an unexpected
\* category, and a missing value
Types == {"clicks", "carts", "orders", "views", None}

SeqUpTo(S, k) == UNION {[1..m -> S] : m \in 0..k}

\* Lines of a train.jsonl file: two session objects of the OTTO shape, a
\* session object with no events, a blank line and a truncated object.
LineSamples ==
    { << 1, << <<10, 100, "clicks">>, <<11, 101, "orders">> >> >>,
      << 2, << <<12, 102, "carts">> >> >>,
      << 3, << >> >>,
      << >>,
      << 4 >> }

\* Events of the sessions handed directly to flatten_events
EventSamples ==
    { [aid |-> 10, ts |-> 100, type |-> "clicks"],
      [aid |-> 11, ts |-> 101, type |-> "orders"] }

SessionRecords == [session : 1..MaxSid, events : SeqUpTo(EventSamples, MaxEvents)]

\* Rows of the event tables handed directly to build_session_features
EventRows == [session : 1..MaxSid, aid : {10}, ts : {100}, type : Types]

----------------------------------------------------------------------------
(* load_sessions *)

\* json.loads accepts the line
WellFormed(line) == Len(line) = 2

\* json.loads(line) for a well-formed line
json_loads(line) ==
    [session |-> line[1],
     events  |-> [j \in 1..Len(line[2]) |->
                    [aid  |-> line[2][j][1],
                     ts   |-> line[2][j][2],
                     type |-> line[2][j][3]]]]

BreakCondOffByOne(i, limit) == i > limit

BreakCondEarly(i, limit) == i + 1 >= limit

BreakNever(i, limit) == FALSE

\* `if i >= n: break`
BreakCond(i, limit) == i >= limit

\* json.loads(line) raises json.JSONDecodeError
LoadsRaises(line) == ~WellFormed(line)

NoResult == [returned |-> FALSE, value |-> << >>]

\* the iterator f is exhausted: the loop ends and the list is returned
LoadEOF ==
    /\ pc = "load"
    /\ consumed = Len(file)
    /\ load_result' = [returned |-> TRUE, value |-> sessions]
    /\ pc' = "flatten"
    /\ UNCHANGED <<entry, file, n, consumed, sessions, event_df,
                   session_features, error>>

\* enumerate(f) yields line number i = consumed; i >= n: break and return
LoadBreak ==
    /\ pc = "load"
    /\ consumed < Len(file)
    /\ BreakCond(consumed, n)
    /\ consumed' = consumed + 1
    /\ load_result' = [returned |-> TRUE, value |-> sessions]
    /\ pc' = "flatten"
    /\ UNCHANGED <<entry, file, n, sessions, event_df, session_features, error>>

\* sessions.append(json.loads(line))
LoadAppend ==
    /\ pc = "load"
    /\ consumed < Len(file)
    /\ ~BreakCond(consumed, n)
    /\ ~LoadsRaises(file[consumed + 1])
    /\ consumed' = consumed + 1
    /\ sessions' = Append(sessions, json_loads(file[consumed + 1]))
    /\ UNCHANGED <<entry, pc, file, n, load_result, event_df,
                   session_features, error>>

\* json.loads raises: the exception leaves load_sessions, nothing is returned
LoadRaise ==
    /\ pc = "load"
    /\ consumed < Len(file)
    /\ ~BreakCond(consumed, n)
    /\ LoadsRaises(file[consumed + 1])
    /\ consumed' = consumed + 1
    /\ pc' = "error"
    /\ error' = "JSONDecodeError"
    /\ UNCHANGED <<entry, file, n, sessions, load_result, event_df,
                   session_features>>

----------------------------------------------------------------------------
(* flatten_events *)

RowSwapped(sid, e) == [session |-> sid, aid |-> e.ts, ts |-> e.aid, type |-> e.type]

\* the dict appended for event e of session sid
Row(sid, e) == [session |-> sid, aid |-> e.aid, ts |-> e.ts, type |-> e.type]

\* the inner loop: the rows of one session, in event order
SessionRows(s) == [j \in 1..Len(s.events) |-> Row(s.session, s.events[j])]

RECURSIVE flatten_events(_)
\* the outer loop: rows of the sessions, in session order
flatten_events(ss) ==
    IF ss = << >> THEN << >>
    ELSE flatten_events(SubSeq(ss, 1, Len(ss) - 1)) \o SessionRows(ss[Len(ss)])

Flatten ==
    /\ pc = "flatten"
    /\ event_df' = flatten_events(sessions)
    /\ pc' = "build"
    /\ UNCHANGED <<entry, file, n, consumed, sessions, load_result,
                   session_features, error>>

----------------------------------------------------------------------------
(* build_session_features *)

EmptyNever(df) == FALSE

\* event_df.empty: the table has no rows
IsEmpty(df) == Len(df) = 0

Min(S) == CHOOSE m \in S : \A x \in S : m <= x

RECURSIVE SortedSeq(_)
\* the elements of a finite set of integers in ascending order
SortedSeq(S) ==
    IF S = {} THEN << >>
    ELSE LET m == Min(S) IN <<m>> \o SortedSeq(S \ {m})

RECURSIVE FirstSeen(_)
\* the distinct session values of df in order of first appearance
FirstSeen(df) ==
    IF df = << >> THEN << >>
    ELSE LET init == FirstSeen(SubSeq(df, 1, Len(df) - 1))
             k    == df[Len(df)].session
         IN IF \E i \in 1..Len(init) : init[i] = k THEN init ELSE Append(init, k)

RECURSIVE RunKeys(_)
\* one key per run of consecutive rows with the same session value
RunKeys(df) ==
    IF df = << >> THEN << >>
    ELSE LET init == RunKeys(SubSeq(df, 1, Len(df) - 1))
             k    == df[Len(df)].session
         IN IF Len(df) > 1 /\ df[Len(df) - 1].session = k THEN init
            ELSE Append(init, k)

GroupKeysUnsorted(df) == FirstSeen(df)

GroupKeysByRun(df) == RunKeys(df)

\* groupby("session"): the distinct values of the session column, sorted
GroupKeys(df) == SortedSeq({df[j].session : j \in 1..Len(df)})

\* the "type" column of the group of key k, in table order
GroupTypes(df, k) ==
    LET InGroup(r) == r.session = k
        g == SelectSeq(df, InGroup)
    IN [j \in 1..Len(g) |-> g[j].type]

\* ("type", "count"): the number of non-missing values of the column
Count(x) == Cardinality({j \in 1..Len(x) : x[j] # None})

EqSumNotEqual(x, v) == Cardinality({j \in 1..Len(x) : x[j] # v})

\* (x == v).sum(): the number of values equal to v
EqSum(x, v) == Cardinality({j \in 1..Len(x) : x[j] = v})

ConvertedAtLeastTwo(order_cnt) == order_cnt > 1

\* session_features["order_cnt"] > 0
Converted(order_cnt) == order_cnt > 0

\* one row of the aggregated table, with the converted column added
FeatureRow(df, k) ==
    LET x == GroupTypes(df, k)
        orders == EqSum(x, "orders")
    IN [session      |-> k,
        total_events |-> Count(x),
        click_cnt    |-> EqSum(x, "clicks"),
        cart_cnt     |-> EqSum(x, "carts"),
        order_cnt    |-> orders,
        converted    |-> Converted(orders)]

build_session_features(df) ==
    LET keys == GroupKeys(df)
    IN [i \in 1..Len(keys) |-> FeatureRow(df, keys[i])]

\* `if event_df.empty: raise ValueError(...)`
BuildRaise ==
    /\ pc = "build"
    /\ IsEmpty(event_df)
    /\ pc' = "error"
    /\ error' = "ValueError"
    /\ UNCHANGED <<entry, file, n, consumed, sessions, load_result, event_df,
                   session_features>>

\* the groupby/agg, the converted column and the return
BuildAggregate ==
    /\ pc = "build"
    /\ ~IsEmpty(event_df)
    /\ session_features' = build_session_features(event_df)
    /\ pc' = "done"
    /\ UNCHANGED <<entry, file, n, consumed, sessions, load_result, event_df,
                   error>>

----------------------------------------------------------------------------
(* The specification *)

\* load_sessions(path, n) on a file of up to MaxLines lines
InitLoad ==
    /\ entry = "load_sessions"
    /\ pc = "load"
    /\ file \in SeqUpTo(LineSamples, MaxLines)
    /\ n \in 0..MaxN
    /\ sessions = << >>
    /\ event_df = << >>

\* flatten_events(sessions) on up to MaxSessions session records
InitFlatten ==
    /\ entry = "flatten_events"
    /\ pc = "flatten"
    /\ file = << >>
    /\ n = 0
    /\ sessions \in SeqUpTo(SessionRecords, MaxSessions)
    /\ event_df = << >>

\* build_session_features(event_df) on an event table of up to MaxRows rows
InitBuild ==
    /\ entry = "build_session_features"
    /\ pc = "build"
    /\ file = << >>
    /\ n = 0
    /\ sessions = << >>
    /\ event_df \in SeqUpTo(EventRows, MaxRows)

Init ==
    /\ InitLoad \/ InitFlatten \/ InitBuild
    /\ consumed = 0
    /\ load_result = NoResult
    /\ session_features = << >>
    /\ error = "none"

Next ==
    \/ LoadEOF
    \/ LoadBreak
    \/ LoadAppend
    \/ LoadRaise
    \/ Flatten
    \/ BuildRaise
    \/ BuildAggregate

Spec == Init /\ [][Next]_vars

----------------------------------------------------------------------------
(* Properties *)

Smaller(a, b) == IF a <= b THEN a ELSE b

\* flatten_events has returned event_df for `sessions`
FlattenRan ==
    /\ entry # "build_session_features"
    /\ pc \in {"build", "done"} \/ error = "ValueError"

\* the positions of event_df whose session is k
RowsOf(k) == {j \in 1..Len(event_df) : event_df[j].session = k}

SessionValues == {event_df[j].session : j \in 1..Len(event_df)}

FeatureIndex == 1..Len(session_features)

\* C1: when build_session_features returns, every session identifier of the
\* event table is the index of exactly one row of the result, and the result
\* has no row for any other identifier.
C1_OneRowPerSession ==
    pc = "done" =>
        /\ \A k \in SessionValues :
              Cardinality({i \in FeatureIndex : session_features[i].session = k}) = 1
        /\ \A i \in FeatureIndex : session_features[i].session \in SessionValues

\* C1 witness: a result built from a table in which the rows of one session
\* are separated by a row of another session.
C1_Witness ==
    /\ pc = "done"
    /\ \E a, b, c \in 1..Len(event_df) :
          /\ a < b /\ b < c
          /\ event_df[a].session = event_df[c].session
          /\ event_df[a].session # event_df[b].session

\* C2: in every row of the result total_events is at least the sum of the
\* three named counts, and equal to it when every event of that session has
\* one of the types "clicks", "carts", "orders".
C2_TotalAtLeastSum ==
    pc = "done" =>
        \A i \in FeatureIndex :
            LET r == session_features[i]
                named == r.click_cnt + r.cart_cnt + r.order_cnt
            IN /\ r.total_events >= named
               /\ (\A j \in RowsOf(r.session) :
                       event_df[j].type \in {"clicks", "carts", "orders"})
                  => r.total_events = named

\* C2 witness: a result with one row where the total exceeds the sum of the
\* named counts and another where a mixed session reaches equality.
C2_Witness ==
    /\ pc = "done"
    /\ \E i \in FeatureIndex :
          LET r == session_features[i]
          IN r.total_events > r.click_cnt + r.cart_cnt + r.order_cnt
    /\ \E i \in FeatureIndex :
          LET r == session_features[i]
          IN /\ r.total_events = r.click_cnt + r.cart_cnt + r.order_cnt
             /\ r.total_events >= 2

\* C3: in every row of the result total_events is the number of rows of the
\* event table that carry that session, whatever their type value.
C3_TotalIsRowCount ==
    pc = "done" =>
        \A i \in FeatureIndex :
            session_features[i].total_events
                = Cardinality(RowsOf(session_features[i].session))

\* C4: in every row of the result converted is true exactly when order_cnt
\* is positive, which is exactly when the session has an event of type
\* "orders".
C4_ConvertedIffOrders ==
    pc = "done" =>
        \A i \in FeatureIndex :
            LET r == session_features[i]
            IN /\ r.converted <=> (r.order_cnt > 0)
               /\ (r.order_cnt > 0) <=>
                    (\E j \in RowsOf(r.session) : event_df[j].type = "orders")

\* C4 witness: a result with a converted session holding a single order and
\* a session that is not converted.
C4_Witness ==
    /\ pc = "done"
    /\ \E i \in FeatureIndex :
          session_features[i].converted /\ session_features[i].order_cnt = 1
    /\ \E i \in FeatureIndex : ~session_features[i].converted

\* C5: build_session_features never returns for a table without rows: it
\* ends with the empty-input error and no feature table; and the table
\* flatten_events makes from no sessions, or from sessions that all have an
\* empty events list, has no rows and is rejected that way.
C5_EmptyInputRejected ==
    /\ pc = "done" => Len(event_df) > 0
    /\ (pc = "error" /\ error = "ValueError") =>
          Len(event_df) = 0 /\ session_features = << >>
    /\ (FlattenRan /\ \A k \in 1..Len(sessions) : sessions[k].events = << >>) =>
          /\ Len(event_df) = 0
          /\ pc # "build" => (pc = "error" /\ error = "ValueError")

\* C5 witness: the empty-input error raised for the table flattened from a
\* non-empty sequence of sessions without events.
C5_Witness ==
    /\ pc = "error"
    /\ error = "ValueError"
    /\ entry # "build_session_features"
    /\ Len(sessions) > 0

AllLinesValid == \A k \in 1..Len(file) : WellFormed(file[k])

\* C6: when every line of the file is a valid record, load_sessions returns
\* min(n, number of lines) records, the k-th being the parse of the k-th line.
C6_LoadReturnsPrefix ==
    (load_result.returned /\ AllLinesValid) =>
        /\ Len(load_result.value) = Smaller(n, Len(file))
        /\ \A k \in 1..Len(load_result.value) :
              load_result.value[k] = json_loads(file[k])

\* C6 witness: a load that returned a proper, non-empty prefix of a valid file.
C6_Witness ==
    /\ load_result.returned
    /\ AllLinesValid
    /\ n >= 2
    /\ n < Len(file)

RECURSIVE TotalEvents(_)
\* the number of events of a sequence of session records
TotalEvents(ss) ==
    IF ss = << >> THEN 0 ELSE Len(ss[1].events) + TotalEvents(Tail(ss))

\* C7: the table flatten_events returns has one row per event: the j-th event
\* of the k-th session is the row that follows all rows of the earlier
\* sessions and the earlier events of that session, and carries the session's
\* identifier and the event's aid, ts and type; there are no other rows.
C7_FlattenRows ==
    FlattenRan =>
        /\ Len(event_df) = TotalEvents(sessions)
        /\ \A k \in 1..Len(sessions) :
              \A j \in 1..Len(sessions[k].events) :
                 LET row == event_df[TotalEvents(SubSeq(sessions, 1, k - 1)) + j]
                     e   == sessions[k].events[j]
                 IN /\ row.session = sessions[k].session
                    /\ row.aid = e.aid
                    /\ row.ts = e.ts
                    /\ row.type = e.type

\* C7 witness: a table flattened from two sessions, the first with two
\* different events.
C7_Witness ==
    /\ FlattenRan
    /\ Len(sessions) >= 2
    /\ Len(sessions[1].events) = 2
    /\ sessions[1].events[1] # sessions[1].events[2]
    /\ Len(sessions[2].events) >= 1

\* a malformed line among the first n lines of the file
BadLineInPrefix == \E k \in 1..Smaller(n, Len(file)) : ~WellFormed(file[k])

\* C8: load_sessions ends with the parse error exactly when one of the first
\* n lines is malformed, and then it returns nothing; when none of them is,
\* it returns, whatever the later lines are.
C8_ParseErrorIffBadPrefix ==
    /\ error = "JSONDecodeError" => (BadLineInPrefix /\ ~load_result.returned)
    /\ load_result.returned => ~BadLineInPrefix
    /\ (entry = "load_sessions" /\ pc # "load") =>
          (error = "JSONDecodeError" \/ load_result.returned)

\* C8 witness: a parse error raised after records had already been read.
C8_Witness ==
    /\ error = "JSONDecodeError"
    /\ Len(sessions) >= 1

\* C9 as stated: the list never holds more than n records, and once the n-th
\* record has been appended no further line is taken from the file.
C9_NoLineAfterNth ==
    [][ /\ pc = "load" => Len(sessions) <= n
        /\ (pc = "load" /\ n >= 1 /\ Len(sessions) = n) => consumed' = consumed ]_vars

\* C9 as amended: the list never holds more than n records; the loader takes
\* at most one line beyond the n-th record, and that line ends the loop
\* without being parsed or appended.
C9_AtMostOneLineAfterNth ==
    entry = "load_sessions" =>
        /\ Len(sessions) <= n
        /\ consumed <= Len(sessions) + 1
        /\ consumed <= n + 1
        /\ consumed > Len(sessions) => pc # "load"
        /\ consumed = n + 1 => load_result.returned /\ load_result.value = sessions

\* C9 witness: a load that returned n >= 1 records after taking the line
\* that follows them.
C9_Witness ==
    /\ load_result.returned
    /\ n >= 1
    /\ Len(sessions) = n
    /\ consumed = n + 1

\* C10: the rows of the result are in strictly ascending order of session
\* identifier.
C10_AscendingSessions ==
    pc = "done" =>
        \A i, j \in FeatureIndex :
            i < j => session_features[i].session < session_features[j].session

\* C10 witness: a result of two or more rows built from a table whose first
\* row has a larger session identifier than a later one.
C10_Witness ==
    /\ pc = "done"
    /\ Len(session_features) >= 2
    /\ \E j \in 2..Len(event_df) : event_df[1].session > event_df[j].session

====
